---- MODULE Spec2Model ----
(***************************************************************************)
(* A model of the Honeywell Zephyr HAF driver of zephyr/zephyr.py: the     *)
(* class Zephyr (construction, power-up initialisation, read,              *)
(* read_average) against the smbus2 bus layer, and its digital-output      *)
(* encode/decode arithmetic.                                               *)
(*                                                                         *)
(* Flow rates are Python floats.  Every flow the driver computes is a      *)
(* dyadic rational FS * 5 * (code - 8192) / 2^15 with fewer than 53        *)
(* significant bits, so the float arithmetic of _convert_to_flow_rate is   *)
(* exact on them; the model holds a flow as the integer number of          *)
(* 2^-15 SCCM units (FlowUnit).  The quotient sum(data) / n of             *)
(* read_average is held as the exact fraction [num, den].                  *)
(***************************************************************************)
EXTENDS Integers, Sequences, FiniteSets, TLC

(* ------------------------------ bounds -------------------------------- *)

\* Largest n passed to read_average(n).
MaxN == 3

\* Codes c with c % CodeStride = 0 seed the flows given to the encoder.
CodeStride == 64

(* ------------------------- program constants -------------------------- *)

SUPPORTED_FLOW_RANGE == {50, 100, 200, 400, 750}

SUPPORTED_SENSOR_ADDRESS == {73, 89, 105, 121}      \* 0x49 0x59 0x69 0x79

\* Sleep durations in milliseconds (0.017 s, 0.030 s, 0.001 s).
start_up_time == 17

warm_up_time == 30

sensor_update_period == 1

\* 16384 = 2^14, the full scale of the digital output code.
FullScaleCode == 16384

\* One flow unit of the model is 1 / FlowUnit SCCM.
FlowUnit == 2 ^ 15

(* ------------------------------ inputs -------------------------------- *)

\* Constructor arguments tried: the supported values and unsupported ones.
FlowRangeInputs == SUPPORTED_FLOW_RANGE \cup {0, 500}

SensorAddressInputs == SUPPORTED_SENSOR_ADDRESS \cup {0, 72}

ChannelInputs == {0, 1}

\* Bytes bus.read_byte may return during initialisation.
InitBytes == {0, 165}

\* 2-byte blocks bus.read_i2c_block_data may return: valid ones (both status
\* bits clear) and ones with either or both status bits set.
BusBlocks ==
    { <<32, 0>>, <<0, 0>>, <<0, 32>>, <<63, 255>>, <<32, 1>>,
      <<64, 0>>, <<128, 0>>, <<192, 0>>, <<255, 255>>, <<96, 1>> }

(* --------------------------- pure functions --------------------------- *)

\* Python's a << k on non-negative ints.
ShiftLeft(a, k) == a * (2 ^ k)

\* Python's a & b and a | b on non-negative ints, bit by bit.
RECURSIVE BitAnd(_, _)
BitAnd(a, b) ==
    IF a = 0 \/ b = 0 THEN 0
    ELSE ((a % 2) * (b % 2)) + 2 * BitAnd(a \div 2, b \div 2)

RECURSIVE BitOr(_, _)
BitOr(a, b) ==
    IF a = 0 THEN b
    ELSE IF b = 0 THEN a
    ELSE (IF (a % 2) + (b % 2) > 0 THEN 1 ELSE 0) + 2 * BitOr(a \div 2, b \div 2)

\* Python's int() of the quotient a / b (b > 0): truncation toward zero.
TruncDiv(a, b) == IF a >= 0 THEN a \div b ELSE -((-a) \div b)

\* Seeded fault: "and" in place of "or".
ConfigSupported_And(flow_range, sensor_address) ==
    ~(flow_range \notin SUPPORTED_FLOW_RANGE
        /\ sensor_address \notin SUPPORTED_SENSOR_ADDRESS)

\* flow_range not in SUPPORTED_FLOW_RANGE or sensor_address not in
\* SUPPORTED_SENSOR_ADDRESS, negated.
ConfigSupported(flow_range, sensor_address) ==
    ~(flow_range \notin SUPPORTED_FLOW_RANGE
        \/ sensor_address \notin SUPPORTED_SENSOR_ADDRESS)

\* Seeded fault: the mask 0x8000 tests the top bit only.
_validate_data_TopBitOnly(data) ==
    IF BitAnd(data, 32768) # 0 THEN FALSE ELSE TRUE

\* data & 0xc000 != 0  ->  False, else True.
_validate_data(data) ==
    IF BitAnd(data, 49152) # 0 THEN FALSE ELSE TRUE

\* raw_data_block[0] << 8 | raw_data_block[1]
DigitalOutput(raw_data_block) ==
    BitOr(ShiftLeft(raw_data_block[1], 8), raw_data_block[2])

\* FS * ((digital_output / 16384) - 0.5) / 0.4, in flow units:
\* digital_output / 16384 is 2 * digital_output units, 0.5 is FlowUnit / 2
\* units, and / 0.4 is * 5 / 2 (exact: the dividend is even).
_convert_to_flow_rate(FS_flow_rate, digital_output) ==
    (FS_flow_rate
        * (((FlowUnit \div FullScaleCode) * digital_output) - (FlowUnit \div 2))
        * 5) \div 2

\* Seeded fault: off by one, int(...) + 1.
_convert_to_digital_output_OneTooHigh(FS_flow_rate, flow_rate) ==
    TruncDiv(FullScaleCode * (5 * FS_flow_rate * 2) + 4 * flow_rate
                + (20 * FS_flow_rate),
             20 * FS_flow_rate)

\* int(16384 * (0.5 + 0.4 * (flow_rate / FS))) with flow_rate in flow units:
\* 16384 * (1/2 + (2/5) * flow_rate / (FlowUnit * FS))
\*   = (5 * FlowUnit * FS + 4 * flow_rate) / (20 * FS)    (FlowUnit = 2 * 16384)
_convert_to_digital_output(FS_flow_rate, flow_rate) ==
    TruncDiv(FullScaleCode * (5 * FS_flow_rate * 2) + 4 * flow_rate,
             20 * FS_flow_rate)

\* Python's sum(data).
RECURSIVE Sum(_)
Sum(data) == IF data = <<>> THEN 0 ELSE Head(data) + Sum(Tail(data))

\* Seeded fault: the first sample is left out of the sum.
Average_DropFirst(data, n) == <<Sum(Tail(data)), n>>

\* sum(data) / n: the exact fraction <<numerator, denominator>>.
Average(data, n) == <<Sum(data), n>>

(* ------------------------------- state -------------------------------- *)

VARIABLES
    pc,             \* position of the single (synchronous) thread of control
    op,             \* the caller's current or last operation
    args,           \* <<>> or <<arguments of the latest Zephyr(...) call>>
    sensor,         \* the caller's reference: "None", "constructing", "ready"
    self,           \* the fields of the Zephyr object
    bus_open,       \* number of SMBus connections currently open
    events,         \* bus-layer events of the current operation, in order
    pending,        \* how the with-block in progress is being left
    digital_output, \* local of _read_digital_output
    caller,         \* who called read(): "read" (the user) or "avg"
    n,              \* argument of read_average
    data,           \* local list of read_average
    result,         \* what the operation returned or raised
    last_ok,        \* history: value returned by the latest successful read()
    conv            \* the encode/decode pipeline of the conversion checks

vars == <<pc, op, args, sensor, self, bus_open, events, pending,
          digital_output, caller, n, data, result, last_ok, conv>>

driver_vars == <<pc, op, args, sensor, self, bus_open, events, pending,
                 digital_output, caller, n, data, result, last_ok>>

\* The fields before __init__ has assigned them (no object exists).
NoSelf ==
    [smbus_ch |-> 0, FS_flow_rate |-> 0, sensor_address |-> 0, last_flow_rate |-> 0]

Init ==
    /\ pc = "idle"
    /\ op = "none"
    /\ args = <<>>
    /\ sensor = "None"
    /\ self = NoSelf
    /\ bus_open = 0
    /\ events = <<>>
    /\ pending = "none"
    /\ digital_output = 0
    /\ caller = "none"
    /\ n = 0
    /\ data = <<>>
    /\ result = <<"none">>
    /\ last_ok = 0
    /\ conv = <<"off">>

(* ---------------------------- construction ---------------------------- *)

\* Seeded fault: the bus is opened and closed before the configuration is
\* validated.
Construct_OpenFirst(flow_range, sensor_address, smbus_ch) ==
    /\ pc = "idle"
    /\ sensor = "None"
    /\ op' = "construct"
    /\ args' = << [flow_range |-> flow_range, sensor_address |-> sensor_address,
                   smbus_ch |-> smbus_ch] >>
    /\ IF ~ConfigSupported(flow_range, sensor_address)
       THEN /\ events' = << <<"open", smbus_ch>>, <<"close">> >>
            /\ result' = <<"SensorNotSupported", flow_range, sensor_address>>
            /\ pc' = "idle"
            /\ UNCHANGED <<sensor, self, last_ok>>
       ELSE /\ events' = <<>>
            /\ self' = [smbus_ch |-> smbus_ch, FS_flow_rate |-> flow_range,
                        sensor_address |-> sensor_address, last_flow_rate |-> 0]
            /\ sensor' = "constructing"
            /\ last_ok' = 0
            /\ result' = <<"pending">>
            /\ pc' = "init_open"
    /\ UNCHANGED <<bus_open, pending, digital_output, caller, n, data, conv>>

\* Zephyr.__init__ up to the call of _initialize_sensor.
Construct(flow_range, sensor_address, smbus_ch) ==
    /\ pc = "idle"
    /\ sensor = "None"
    /\ op' = "construct"
    /\ args' = << [flow_range |-> flow_range, sensor_address |-> sensor_address,
                   smbus_ch |-> smbus_ch] >>
    /\ events' = <<>>
    /\ IF ~ConfigSupported(flow_range, sensor_address)
       THEN /\ result' = <<"SensorNotSupported", flow_range, sensor_address>>
            /\ pc' = "idle"
            /\ UNCHANGED <<sensor, self, last_ok>>
       ELSE /\ self' = [smbus_ch |-> smbus_ch, FS_flow_rate |-> flow_range,
                        sensor_address |-> sensor_address, last_flow_rate |-> 0]
            /\ sensor' = "constructing"
            /\ last_ok' = 0
            /\ result' = <<"pending">>
            /\ pc' = "init_open"
    /\ UNCHANGED <<bus_open, pending, digital_output, caller, n, data, conv>>

\* The exception of a failed construction leaves no object behind.
ConstructionFails ==
    /\ result' = <<"OSError">>
    /\ sensor' = "None"
    /\ self' = NoSelf
    /\ pc' = "idle"

\* with SMBus(self._smbus_ch) as bus:  (the device may fail to open)
InitOpen ==
    /\ pc = "init_open"
    /\ \/ /\ bus_open' = bus_open + 1
          /\ events' = Append(events, <<"open", self.smbus_ch>>)
          /\ pc' = "init_sleep1"
          /\ UNCHANGED <<result, sensor, self>>
       \/ /\ events' = Append(events, <<"open_error", self.smbus_ch>>)
          /\ ConstructionFails
          /\ UNCHANGED bus_open
    /\ UNCHANGED <<op, args, pending, digital_output, caller, n, data, last_ok, conv>>

\* sleep(start_up_time)
InitSleepStartUp ==
    /\ pc = "init_sleep1"
    /\ events' = Append(events, <<"sleep", start_up_time>>)
    /\ pc' = "init_read1"
    /\ UNCHANGED <<op, args, sensor, self, bus_open, pending, digital_output,
                   caller, n, data, result, last_ok, conv>>

\* bus.read_byte(self._sensor_address): the value is dropped; an I/O error
\* leaves the with-block.
InitReadByte(here, next) ==
    /\ pc = here
    /\ \/ /\ \E b \in InitBytes :
                events' = Append(events, <<"read_byte", self.sensor_address, b>>)
          /\ pc' = next
          /\ UNCHANGED pending
       \/ /\ events' = Append(events, <<"read_byte_error", self.sensor_address>>)
          /\ pending' = "oserror"
          /\ pc' = "init_exit"
    /\ UNCHANGED <<op, args, sensor, self, bus_open, digital_output,
                   caller, n, data, result, last_ok, conv>>

InitReadByte1 == InitReadByte("init_read1", "init_sleep2")

\* Seeded fault: the warm-up delay is left out.
InitSleepWarmUp_Skipped ==
    /\ pc = "init_sleep2"
    /\ pc' = "init_read2"
    /\ UNCHANGED <<op, args, sensor, self, bus_open, events, pending,
                   digital_output, caller, n, data, result, last_ok, conv>>

\* sleep(warm_up_time)
InitSleepWarmUp ==
    /\ pc = "init_sleep2"
    /\ events' = Append(events, <<"sleep", warm_up_time>>)
    /\ pc' = "init_read2"
    /\ UNCHANGED <<op, args, sensor, self, bus_open, pending, digital_output,
                   caller, n, data, result, last_ok, conv>>

InitReadByte2 == InitReadByte("init_read2", "init_exit")

\* SMBus.__exit__ closes the connection; then __init__ returns the object,
\* or the I/O error propagates to the caller.
InitExit ==
    /\ pc = "init_exit"
    /\ bus_open' = bus_open - 1
    /\ events' = Append(events, <<"close">>)
    /\ pending' = "none"
    /\ IF pending = "oserror"
       THEN ConstructionFails
       ELSE /\ result' = <<"ok">>
            /\ sensor' = "ready"
            /\ pc' = "idle"
            /\ UNCHANGED self
    /\ UNCHANGED <<op, args, digital_output, caller, n, data, last_ok, conv>>

(* -------------------------------- read -------------------------------- *)

\* Locals of read_average and _read_digital_output once their frames are gone.
FramesGone ==
    /\ caller' = "none"
    /\ n' = 0
    /\ data' = <<>>
    /\ digital_output' = 0
    /\ pending' = "none"

\* The user calls sensor.read().
Read ==
    /\ pc = "idle"
    /\ sensor = "ready"
    /\ op' = "read"
    /\ caller' = "read"
    /\ events' = <<>>
    /\ result' = <<"pending">>
    /\ pc' = "rd_open"
    /\ UNCHANGED <<args, sensor, self, bus_open, pending, digital_output,
                   n, data, last_ok, conv>>

\* _read_digital_output: with SMBus(self._smbus_ch) as bus:
\* a failure to open propagates through read (and read_average).
ReadOpen ==
    /\ pc = "rd_open"
    /\ \/ /\ bus_open' = bus_open + 1
          /\ events' = Append(events, <<"open", self.smbus_ch>>)
          /\ pc' = "rd_block"
          /\ UNCHANGED <<result, caller, n, data, digital_output, pending>>
       \/ /\ events' = Append(events, <<"open_error", self.smbus_ch>>)
          /\ result' = <<"OSError">>
          /\ pc' = "idle"
          /\ FramesGone
          /\ UNCHANGED bus_open
    /\ UNCHANGED <<op, args, sensor, self, last_ok, conv>>

\* raw_data_block = bus.read_i2c_block_data(self._sensor_address, 0, 2);
\* digital_output = ...; if self._validate_data(digital_output): return ...
\* Either way, or on an I/O error of the block read, the with-block is left.
ReadBlock ==
    /\ pc = "rd_block"
    /\ \/ \E raw_data_block \in BusBlocks :
            /\ events' = Append(events,
                    <<"read_block", self.sensor_address, 0, 2, raw_data_block>>)
            /\ digital_output' = DigitalOutput(raw_data_block)
            /\ pending' = IF _validate_data(DigitalOutput(raw_data_block))
                          THEN "return" ELSE "raise_invalid"
       \/ /\ events' = Append(events, <<"read_block_error", self.sensor_address>>)
          /\ pending' = "oserror"
          /\ UNCHANGED digital_output
    /\ pc' = "rd_exit"
    /\ UNCHANGED <<op, args, sensor, self, bus_open, caller, n, data, result,
                   last_ok, conv>>

\* Seeded fault: the connection is closed on the normal paths only.
ReadExit_LeakOnError ==
    /\ pc = "rd_exit"
    /\ IF pending = "oserror"
       THEN UNCHANGED <<bus_open, events>>
       ELSE /\ bus_open' = bus_open - 1
            /\ events' = Append(events, <<"close">>)
    /\ pc' = "rd_done"
    /\ UNCHANGED <<op, args, sensor, self, pending, digital_output, caller, n,
                   data, result, last_ok, conv>>

\* SMBus.__exit__ on every way out of the with-block.
ReadExit ==
    /\ pc = "rd_exit"
    /\ bus_open' = bus_open - 1
    /\ events' = Append(events, <<"close">>)
    /\ pc' = "rd_done"
    /\ UNCHANGED <<op, args, sensor, self, pending, digital_output, caller, n,
                   data, result, last_ok, conv>>

\* Seeded fault: read() does not store the flow rate it returns.
ReadReturn_NoStore ==
    /\ pc = "rd_done"
    /\ pending = "return"
    /\ LET flow_rate == _convert_to_flow_rate(self.FS_flow_rate, digital_output)
       IN  /\ last_ok' = flow_rate
           /\ IF caller = "read"
              THEN /\ result' = <<"ok", flow_rate, 1>>
                   /\ pc' = "idle"
                   /\ FramesGone
              ELSE /\ data' = Append(data, flow_rate)
                   /\ pc' = "avg_sleep"
                   /\ digital_output' = 0
                   /\ pending' = "none"
                   /\ UNCHANGED <<result, caller, n>>
    /\ UNCHANGED <<op, args, sensor, self, bus_open, events, conv>>

\* read(): flow_rate = self._convert_to_flow_rate(<the returned code>);
\* self._last_flow_rate = flow_rate; return flow_rate  (to the user, or to
\* read_average, which appends it to data).
ReadReturn ==
    /\ pc = "rd_done"
    /\ pending = "return"
    /\ LET flow_rate == _convert_to_flow_rate(self.FS_flow_rate, digital_output)
       IN  /\ self' = [self EXCEPT !.last_flow_rate = flow_rate]
           /\ last_ok' = flow_rate
           /\ IF caller = "read"
              THEN /\ result' = <<"ok", flow_rate, 1>>
                   /\ pc' = "idle"
                   /\ FramesGone
              ELSE /\ data' = Append(data, flow_rate)
                   /\ pc' = "avg_sleep"
                   /\ digital_output' = 0
                   /\ pending' = "none"
                   /\ UNCHANGED <<result, caller, n>>
    /\ UNCHANGED <<op, args, sensor, bus_open, events, conv>>

\* Seeded fault: read_average retries an invalid sample instead of aborting.
ReadRaiseInvalid_SkipInAverage ==
    /\ pc = "rd_done"
    /\ pending = "raise_invalid"
    /\ IF caller = "avg"
       THEN /\ pc' = "avg_loop"
            /\ digital_output' = 0
            /\ pending' = "none"
            /\ UNCHANGED <<result, caller, n, data>>
       ELSE /\ result' = <<"InvalidSensorData", digital_output>>
            /\ pc' = "idle"
            /\ FramesGone
    /\ UNCHANGED <<op, args, sensor, self, bus_open, events, last_ok, conv>>

\* After the with-block: raise InvalidSensorData(digital_output); nothing in
\* read or read_average catches it.
ReadRaiseInvalid ==
    /\ pc = "rd_done"
    /\ pending = "raise_invalid"
    /\ result' = <<"InvalidSensorData", digital_output>>
    /\ pc' = "idle"
    /\ FramesGone
    /\ UNCHANGED <<op, args, sensor, self, bus_open, events, last_ok, conv>>

\* The I/O error of the block read propagates to the user.
ReadRaiseOSError ==
    /\ pc = "rd_done"
    /\ pending = "oserror"
    /\ result' = <<"OSError">>
    /\ pc' = "idle"
    /\ FramesGone
    /\ UNCHANGED <<op, args, sensor, self, bus_open, events, last_ok, conv>>

(* ---------------------------- read_average ---------------------------- *)

\* The user calls sensor.read_average(k); data = [].
ReadAverage(k) ==
    /\ pc = "idle"
    /\ sensor = "ready"
    /\ op' = "read_average"
    /\ caller' = "avg"
    /\ n' = k
    /\ data' = <<>>
    /\ events' = <<>>
    /\ result' = <<"pending">>
    /\ pc' = "avg_loop"
    /\ UNCHANGED <<args, sensor, self, bus_open, pending, digital_output,
                   last_ok, conv>>

\* for i in range(n): data.append(self.read())
AvgRead ==
    /\ pc = "avg_loop"
    /\ Len(data) < n
    /\ pc' = "rd_open"
    /\ UNCHANGED <<op, args, sensor, self, bus_open, events, pending,
                   digital_output, caller, n, data, result, last_ok, conv>>

\* Seeded fault: no pause between two samples.
AvgSleep_Skipped ==
    /\ pc = "avg_sleep"
    /\ pc' = "avg_loop"
    /\ UNCHANGED <<op, args, sensor, self, bus_open, events, pending,
                   digital_output, caller, n, data, result, last_ok, conv>>

\* sleep(self._sensor_update_period)
AvgSleep ==
    /\ pc = "avg_sleep"
    /\ events' = Append(events, <<"sleep", sensor_update_period>>)
    /\ pc' = "avg_loop"
    /\ UNCHANGED <<op, args, sensor, self, bus_open, pending, digital_output,
                   caller, n, data, result, last_ok, conv>>

\* return sum(data) / n   (n = 0 divides by zero)
AvgReturn ==
    /\ pc = "avg_loop"
    /\ Len(data) >= n
    /\ result' = IF n = 0 THEN <<"ZeroDivisionError">>
                 ELSE <<"ok", Average(data, n)[1], Average(data, n)[2]>>
    /\ pc' = "idle"
    /\ FramesGone
    /\ UNCHANGED <<op, args, sensor, self, bus_open, events, last_ok, conv>>

(* --------------------------- specification ---------------------------- *)

Next ==
    \/ \E flow_range \in FlowRangeInputs, sensor_address \in SensorAddressInputs,
          smbus_ch \in ChannelInputs :
            Construct(flow_range, sensor_address, smbus_ch)
    \/ InitOpen
    \/ InitSleepStartUp
    \/ InitReadByte1
    \/ InitSleepWarmUp
    \/ InitReadByte2
    \/ InitExit
    \/ Read
    \/ ReadOpen
    \/ ReadBlock
    \/ ReadExit
    \/ ReadReturn
    \/ ReadRaiseInvalid
    \/ ReadRaiseOSError
    \/ \E k \in 0..MaxN : ReadAverage(k)
    \/ AvgRead
    \/ AvgSleep
    \/ AvgReturn

Spec == Init /\ [][Next]_vars

(* --------------------- the conversions on their own -------------------- *)

\* One least-significant bit of the code in flow units:
\* FS / (16384 * 0.4) SCCM = FS * FlowUnit * 5 / (16384 * 2) units.
OneLSB(FS_flow_rate) == (FS_flow_rate * FlowUnit * 5) \div (FullScaleCode * 2)

\* The 14-bit codes.
Codes == 0 .. (FullScaleCode - 1)

\* Flows in the representable range: the flow of a seed code, plus an
\* offset within one LSB.
FlowInputs(FS_flow_rate) ==
    { _convert_to_flow_rate(FS_flow_rate, c) + d :
        c \in { x \in Codes : x % CodeStride = 0 } \cup {8191, 8192, 16383},
        d \in { 0, 1, OneLSB(FS_flow_rate) \div 2, OneLSB(FS_flow_rate) - 1 } }

\* A driver constructed on channel 1 at address 0x49, and one input of a
\* conversion.
CodecInit ==
    /\ pc = "idle"
    /\ op = "construct"
    /\ \E FS \in SUPPORTED_FLOW_RANGE :
         /\ args = << [flow_range |-> FS, sensor_address |-> 73, smbus_ch |-> 1] >>
         /\ self = [smbus_ch |-> 1, FS_flow_rate |-> FS, sensor_address |-> 73,
                    last_flow_rate |-> 0]
         /\ \/ \E f \in FlowInputs(FS) : conv = <<"flow", f>>
            \/ \E c \in Codes : conv = <<"code", c>>
    /\ sensor = "ready"
    /\ bus_open = 0
    /\ events = << <<"open", 1>>, <<"sleep", start_up_time>>, <<"read_byte", 73, 0>>,
                   <<"sleep", warm_up_time>>, <<"read_byte", 73, 0>>, <<"close">> >>
    /\ pending = "none"
    /\ digital_output = 0
    /\ caller = "none"
    /\ n = 0
    /\ data = <<>>
    /\ result = <<"ok">>
    /\ last_ok = 0

\* sensor._convert_to_digital_output(f)
EncodeFlow ==
    /\ conv[1] = "flow"
    /\ conv' = <<"flow_encoded", conv[2],
                 _convert_to_digital_output(self.FS_flow_rate, conv[2])>>
    /\ UNCHANGED driver_vars

\* sensor._convert_to_flow_rate(<that code>)
DecodeEncoded ==
    /\ conv[1] = "flow_encoded"
    /\ conv' = <<"flow_roundtrip", conv[2], conv[3],
                 _convert_to_flow_rate(self.FS_flow_rate, conv[3])>>
    /\ UNCHANGED driver_vars

\* sensor._convert_to_flow_rate(c)
DecodeCode ==
    /\ conv[1] = "code"
    /\ conv' = <<"code_decoded", conv[2],
                 _convert_to_flow_rate(self.FS_flow_rate, conv[2])>>
    /\ UNCHANGED driver_vars

\* sensor._convert_to_digital_output(<that flow>)
EncodeDecoded ==
    /\ conv[1] = "code_decoded"
    /\ conv' = <<"code_roundtrip", conv[2], conv[3],
                 _convert_to_digital_output(self.FS_flow_rate, conv[3])>>
    /\ UNCHANGED driver_vars

CodecNext ==
    \/ EncodeFlow
    \/ DecodeEncoded
    \/ DecodeCode
    \/ EncodeDecoded

CodecSpec == CodecInit /\ [][CodecNext]_vars

(* ------------------------------ properties ----------------------------- *)

\* The read_block events of the current operation, in order.
BlockEvents == SelectSeq(events, LAMBDA e : e[1] = "read_block")

\* The 16-bit value of a read_block event: first byte high, second byte low.
RawOf(e) == e[5][1] * 256 + e[5][2]

\* Either of the two most-significant bits of a 16-bit value is set.
StatusBitsSet(raw) == (raw \div 16384) % 4 # 0

\* FS * (raw / 16384 - 0.5) / 0.4 SCCM in flow units: FS * 5 * (raw - 8192).
DecodeOf(FS, raw) == FS * 5 * (raw - 8192)

RECURSIVE SumOfDecodes(_, _)
SumOfDecodes(FS, es) ==
    IF es = <<>> THEN 0
    ELSE DecodeOf(FS, RawOf(Head(es))) + SumOfDecodes(FS, Tail(es))

\* C1: constructing Zephyr(flow_range, sensor_address, smbus_ch) fails with
\* SensorNotSupported exactly when flow_range is not one of 50, 100, 200,
\* 400, 750 or sensor_address is not one of 0x49, 0x59, 0x69, 0x79; with
\* both supported (the defaults 750 and 0x49 included) it never does.
C1_SensorNotSupportedIff ==
    args # <<>> =>
        ( (result[1] = "SensorNotSupported")
            <=> ( args[1].flow_range \notin {50, 100, 200, 400, 750}
                    \/ args[1].sensor_address \notin {73, 89, 105, 121} ) )

\* The flow range 500 is rejected although the address 0x49 is supported.
C1_Witness ==
    /\ args # <<>>
    /\ args[1].flow_range = 500
    /\ args[1].sensor_address = 73
    /\ result = <<"SensorNotSupported", 500, 73>>

InitPcs ==
    {"init_open", "init_sleep1", "init_read1", "init_sleep2", "init_read2", "init_exit"}

ReadPcs == {"rd_open", "rd_block", "rd_exit", "rd_done", "avg_loop", "avg_sleep"}

\* C2: a successful construction performs exactly open(channel), sleep 17 ms,
\* read_byte(address), sleep 30 ms, read_byte(address), close, in this order;
\* the bytes read do not reach the object; and no read() or read_average()
\* runs on the driver before the sequence is complete.
C2_InitSequence ==
    /\ (op = "construct" /\ result = <<"ok">>) =>
          /\ Len(events) = 6
          /\ events[1] = <<"open", args[1].smbus_ch>>
          /\ events[2] = <<"sleep", 17>>
          /\ Len(events[3]) = 3 /\ events[3][1] = "read_byte"
          /\ events[3][2] = args[1].sensor_address
          /\ events[4] = <<"sleep", 30>>
          /\ Len(events[5]) = 3 /\ events[5][1] = "read_byte"
          /\ events[5][2] = args[1].sensor_address
          /\ events[6] = <<"close">>
          /\ self = [smbus_ch |-> args[1].smbus_ch,
                     FS_flow_rate |-> args[1].flow_range,
                     sensor_address |-> args[1].sensor_address,
                     last_flow_rate |-> 0]
          /\ sensor = "ready"
    /\ (pc \in InitPcs) => (sensor = "constructing" /\ op = "construct")
    /\ (pc \in ReadPcs \/ op \in {"read", "read_average"}) => sensor = "ready"
    /\ (sensor # "ready") => ~ENABLED (Read \/ \E k \in 0..MaxN : ReadAverage(k))

\* A construction on channel 0 at address 0x79 has completed; the two bytes
\* read differ.
C2_Witness ==
    /\ op = "construct"
    /\ result = <<"ok">>
    /\ pc = "idle"
    /\ args[1].smbus_ch = 0
    /\ args[1].sensor_address = 121
    /\ events[3][3] # events[5][3]

\* C3: the connection read() opens is closed before read() returns or
\* raises, on every exit path; no connection is open between operations, at
\* most one is open at a time, and none is open during the pauses of
\* read_average.
C3_ConnectionScoped ==
    /\ bus_open \in {0, 1}
    /\ (pc \in {"idle", "rd_done", "avg_sleep", "avg_loop"}) => bus_open = 0
    /\ (pc = "rd_open") => bus_open = 0
    /\ (bus_open = 1) =>
          pc \in {"rd_block", "rd_exit", "init_sleep1", "init_read1",
                  "init_sleep2", "init_read2", "init_exit"}
    /\ (pc = "rd_done") => events[Len(events)] = <<"close">>

\* The block read of the second sample of a read_average failed, and the
\* connection is closed before the error leaves read().
C3_Witness ==
    /\ pc = "rd_done"
    /\ pending = "oserror"
    /\ caller = "avg"
    /\ Len(data) = 1
    /\ bus_open = 0
    /\ events[Len(events)] = <<"close">>

C5_LastFlowRate ==
    /\ (op = "construct" /\ sensor # "None") => self.last_flow_rate = 0
    /\ (sensor # "None") =>
          /\ self.last_flow_rate = last_ok
          /\ self.FS_flow_rate = args[1].flow_range
          /\ self.sensor_address = args[1].sensor_address
          /\ self.smbus_ch = args[1].smbus_ch
    /\ (op = "read" /\ result[1] = "ok") => self.last_flow_rate = result[2]

\* An invalid read() after a successful one: the cache still holds the
\* earlier, non-zero flow.
C5_Witness ==
    /\ op = "read"
    /\ pc = "idle"
    /\ result[1] = "InvalidSensorData"
    /\ self.last_flow_rate # 0
    /\ self.last_flow_rate = last_ok

\* C6: read_average(n), n > 0, on valid samples performs exactly n
\* transactions (open, one 2-byte block read at register 0, close), one
\* after the other, each followed by a 1 ms sleep; no two transactions
\* without a 1 ms sleep between them.
C6_AverageTransactions ==
    /\ (op = "read_average" /\ pc = "idle" /\ result[1] = "ok") =>
          /\ Len(events) = 4 * result[3]
          /\ \A i \in 0 .. (result[3] - 1) :
                /\ events[4 * i + 1] = <<"open", self.smbus_ch>>
                /\ Len(events[4 * i + 2]) = 5
                /\ events[4 * i + 2][1] = "read_block"
                /\ events[4 * i + 2][2] = self.sensor_address
                /\ events[4 * i + 2][3] = 0
                /\ events[4 * i + 2][4] = 2
                /\ events[4 * i + 3] = <<"close">>
                /\ events[4 * i + 4] = <<"sleep", 1>>
    /\ (op = "read_average") =>
          \A i, j \in 1 .. Len(events) :
              (i < j /\ events[i][1] = "open" /\ events[j][1] = "open") =>
                  \E k \in (i + 1) .. (j - 1) : events[k] = <<"sleep", 1>>

\* read_average(3) has returned.
C6_Witness ==
    /\ op = "read_average"
    /\ pc = "idle"
    /\ result[1] = "ok"
    /\ result[3] = 3
    /\ Len(events) = 12

C8_RoundTrip ==
    /\ (conv[1] = "flow_roundtrip") =>
          /\ conv[4] - conv[2] < OneLSB(self.FS_flow_rate)
          /\ conv[2] - conv[4] < OneLSB(self.FS_flow_rate)
    /\ (conv[1] = "code_roundtrip") => conv[4] = conv[2]

\* A flow strictly between the flows of two codes went through encode and
\* decode and came back changed.
C8_Witness ==
    /\ conv[1] = "flow_roundtrip"
    /\ conv[4] # conv[2]
    /\ self.FS_flow_rate = 750

\* C9: read_average(n), n > 0, returns the arithmetic mean of the n values
\* the reads decoded; on a constant raw value R it returns exactly the
\* decode of R, and with R = 8192 read() and read_average(n) return 0.0.
C9_Mean ==
    /\ (op = "read_average" /\ pc = "idle" /\ result[1] = "ok") =>
          LET bs == BlockEvents
          IN  /\ result[3] = Len(bs)
              /\ result[3] > 0
              /\ result[2] = SumOfDecodes(self.FS_flow_rate, bs)
              /\ (\A i \in 1 .. Len(bs) : RawOf(bs[i]) = RawOf(bs[1])) =>
                    result[2] = result[3] * DecodeOf(self.FS_flow_rate, RawOf(bs[1]))
              /\ (\A i \in 1 .. Len(bs) : RawOf(bs[i]) = 8192) => result[2] = 0
    /\ (op = "read" /\ pc = "idle" /\ result[1] = "ok" /\ Len(BlockEvents) = 1
            /\ RawOf(BlockEvents[1]) = 8192) =>
          result = <<"ok", 0, 1>>

\* read_average(3) on the constant raw value 0x3FFF.
C9_Witness ==
    /\ op = "read_average"
    /\ pc = "idle"
    /\ result[1] = "ok"
    /\ result[3] = 3
    /\ \A i \in 1 .. 3 : RawOf(BlockEvents[i]) = 16383
    /\ result[2] # 0

\* C10: when construction fails with SensorNotSupported, no connection was
\* opened, nothing was read, no sleep was made, and no driver exists on
\* which read() or read_average() could be called.
C10_ValidatedBeforeBus ==
    (result[1] = "SensorNotSupported") =>
        /\ events = <<>>
        /\ bus_open = 0
        /\ sensor = "None"
        /\ self = NoSelf
        /\ pc = "idle"
        /\ ~ENABLED (Read \/ \E k \in 0..MaxN : ReadAverage(k))

\* A supported flow range with the unsupported address 0x48 was rejected.
C10_Witness ==
    /\ result = <<"SensorNotSupported", 750, 72>>
    /\ events = <<>>
    /\ sensor = "None"

====
